---- MODULE Spec2Model ----
(***************************************************************************)
(* A model of the Edgecast Terraform provider's flows:                     *)
(*   - the DNS TXT token data source (DataSourceDNSTXTTokenRead), a        *)
(*     bounded retry loop around a two-call read-and-classify callback;    *)
(*   - the rules-engine policy normalizer (cleanPolicy, cleanMatches,      *)
(*     standardizeMatchFeature);                                           *)
(*   - the rules-engine policy resource (ResourcePolicyCreate, ...Read,    *)
(*     ...Update, ...Delete), one step per remote call.                    *)
(* Go strings are modelled as sequences of atoms (characters or words), so *)
(* that lower-casing, key rewriting and joining are computed, not assumed. *)
(***************************************************************************)
EXTENDS Integers, Sequences, FiniteSets, TLC

VARIABLES
    pc,          \* position of the token read: "start", "query", "wait", "done"
    cfg,         \* the data source's configuration as read by d.Get
    clock,       \* elapsed time since RetryContext was entered
    calls,       \* number of remote reads issued: [cert |-> n, status |-> n]
    attempts,    \* number of times the retry callback ran
    resp,        \* last certificate-details response
    statusresp,  \* last certificate-status response
    needsRetry,  \* result of the last CheckForRetry ("none" before any)
    allRetry,    \* history: every callback run so far asked for a retry
    ret,         \* what the last callback run returned
    d,           \* the resource data: value, number of writes to it, id
    outcome,     \* how the read ended: [kind |-> ..., err |-> ...]
    doc,         \* the policy tree handed to the normalizer
    orig,        \* the policy tree as it was before normalization
    first,       \* the tree after the first normalization
    npc,         \* state of the tree: "idle", "parsed", "cleaned", "panicked"
    trail,       \* the operations applied to the tree so far, in order
    op,          \* the policy operation: "create", "update", "read", "delete"
    ppc,         \* its position: "start", "add", "deploy", "read", "returned"
    pd,          \* the policy resource data: id, policy, deploy_request_id, deploy_to
    before,      \* the policy resource data as it was when the operation began
    pending,     \* the policy string handed to addPolicy
    policyID,    \* addPolicy's local policyID
    log,         \* the remote calls issued by the operation, in order
    result       \* what the operation returned: "none", "ok", "error"

pollerVars == <<pc, cfg, clock, calls, attempts, resp, statusresp, needsRetry,
                allRetry, ret, d, outcome>>
normVars == <<doc, orig, first, npc, trail>>
policyVars == <<op, ppc, pd, before, pending, policyID, log, result>>
vars == <<pc, cfg, clock, calls, attempts, resp, statusresp, needsRetry,
          allRetry, ret, d, outcome, doc, orig, first, npc, trail,
          op, ppc, pd, before, pending, policyID, log, result>>

(***************************************************************************)
(* Bounds of the model.                                                    *)
(***************************************************************************)
MaxTimeout == 2
MaxWait == 2
MaxDomains == 2
MaxRules == 2
MaxDepth == 2
MaxWidth == 2
MaxFeatures == 2
MaxPasses == 2

(***************************************************************************)
(* Strings.                                                                *)
(***************************************************************************)
UpperChars == <<"P", "R", "O", "C", "E", "S", "I", "N", "G", "M", "L", "T">>
LowerChars == <<"p", "r", "o", "c", "e", "s", "i", "n", "g", "m", "l", "t">>

ToLowerChar(c) ==
    IF \E i \in DOMAIN UpperChars : UpperChars[i] = c
    THEN LowerChars[CHOOSE i \in DOMAIN UpperChars : UpperChars[i] = c]
    ELSE c

ToLower(s) == [i \in DOMAIN s |-> ToLowerChar(s[i])]

processing == <<"p", "r", "o", "c", "e", "s", "s", "i", "n", "g">>

Statuses ==
    { processing,
      <<"P", "r", "o", "c", "e", "s", "s", "i", "n", "g">>,
      <<"P", "R", "O", "C", "E", "S", "S", "I", "N", "G">>,
      <<"c", "o", "m", "p", "l", "e", "t", "e">>,
      <<"p", "r", "o", "c", "e", "s", "s">>,
      <<>> }

Tokens == { <<>>, <<"XYZ">>, <<"ABC">> }

ValidationTypes == {"DV", "OV", "EV"}
CdnProvidedCertificateValidationTypeDV == "DV"

WorkflowErrorMessages == { <<>>, <<"failed">> }

\* A *models.DomainDcvFull: DcvToken is a pointer, nil when isNil.
Domains == [isNil : {TRUE}, Token : {<<>>}] \cup [isNil : {FALSE}, Token : Tokens]

RECURSIVE SeqsUpTo(_, _)
SeqsUpTo(S, n) ==
    IF n = 0 THEN {<<>>}
    ELSE LET shorter == SeqsUpTo(S, n - 1)
         IN shorter \cup {Append(s, x) : s \in {t \in shorter : Len(t) = n - 1}, x \in S}

MetadataLists == SeqsUpTo(Domains, MaxDomains)

NoResp == [err |-> FALSE, ValidationType |-> "DV", WorkflowErrorMessage |-> <<>>,
           metadata |-> <<>>]
NoStatus == [err |-> FALSE, Status |-> <<>>]

(***************************************************************************)
(* The token data source.                                                  *)
(***************************************************************************)
Resps ==
    { [err |-> TRUE, ValidationType |-> "DV", WorkflowErrorMessage |-> <<>>,
       metadata |-> <<>>] }
    \cup [err : {FALSE}, ValidationType : ValidationTypes,
          WorkflowErrorMessage : WorkflowErrorMessages, metadata : MetadataLists]

StatusResps == { [err |-> TRUE, Status |-> <<>>] } \cup [err : {FALSE}, Status : Statuses]

BadInputs == {"none", "wait_timeout", "config", "service", "certificate_id"}

Configs == [bad : BadInputs, timeout : 0..MaxTimeout, retry : BOOLEAN]

NoError == "none"
Ret(kind, err) == [kind |-> kind, err |-> err]
RetryableError(err) == Ret("retryable", err)
\* A slip: a condition meant to be fatal is reported as retryable.
NonRetryableError_Retryable(err) == Ret("retryable", err)
NonRetryableError(err) == Ret("nonretryable", err)
ReturnNil == Ret("nil", NoError)

\* The domain metadata of a certificate, taken from the certificate response.
GetDomainMetadata(r) == r.metadata

\* A slip: the status is compared without lower-casing it first.
CheckForRetry_CaseSensitive(metadata, s) ==
    \/ s.Status = processing
    \/ Len(metadata) = 0
    \/ metadata[1].isNil
    \/ Len(metadata[1].Token) = 0

\* A slip: an empty token is not a reason to retry.
CheckForRetry_EmptyTokenAccepted(metadata, s) ==
    \/ ToLower(s.Status) = processing
    \/ Len(metadata) = 0
    \/ metadata[1].isNil

\* Go evaluates || left to right and stops at the first true operand, as TLC
\* does for \/ : metadata[1] is read only when the list is not empty.
CheckForRetry(metadata, s) ==
    \/ ToLower(s.Status) = processing
    \/ Len(metadata) = 0
    \/ metadata[1].isNil
    \/ Len(metadata[1].Token) = 0

SetValue(dd, v) == [dd EXCEPT !.value = v, !.valueWrites = @ + 1]
SetId(dd, now) == [dd EXCEPT !.idSet = TRUE, !.id = now]

\* A slip: the last domain's token is stored instead of the first.
StoreToken_Last(dd, metadata, now) ==
    SetId(SetValue(dd, metadata[Len(metadata)].Token), now)

\* What the callback does once the token is known to be available.
StoreToken(dd, metadata, now) == SetId(SetValue(dd, metadata[1].Token), now)

\* Slips: wait_until_available is ignored, one way or the other.
NotAvailable_AlwaysRetry(retry) == RetryableError("token not available")
NotAvailable_NeverRetry(retry) == ReturnNil

\* What the callback returns when the token is not available yet.
NotAvailable(retry) ==
    IF retry THEN RetryableError("token not available") ELSE ReturnNil

\* The callback handed to RetryContext: one check.  r and s are what the two
\* remote reads answer; s is not read when the first call fails.
RetryFunc(r, s, retry, dd, now) ==
    IF r.err
    THEN [ret |-> NonRetryableError("error while retrieving certificate details"),
          d |-> dd, certCalls |-> 1, statusCalls |-> 0, needsRetry |-> "none"]
    ELSE IF s.err
    THEN [ret |-> NonRetryableError("error while retrieving certificate details"),
          d |-> dd, certCalls |-> 1, statusCalls |-> 1, needsRetry |-> "none"]
    ELSE IF r.ValidationType # CdnProvidedCertificateValidationTypeDV
    THEN [ret |-> NonRetryableError("certificate must have validation type DV"),
          d |-> dd, certCalls |-> 1, statusCalls |-> 1, needsRetry |-> "none"]
    ELSE IF Len(r.WorkflowErrorMessage) > 0
    THEN [ret |-> NonRetryableError("error in workflow"),
          d |-> dd, certCalls |-> 1, statusCalls |-> 1, needsRetry |-> "none"]
    ELSE LET metadata == GetDomainMetadata(r)
             retryNeeded == CheckForRetry(metadata, s)
         IN IF retryNeeded
            THEN [ret |-> NotAvailable(retry), d |-> dd, certCalls |-> 1,
                  statusCalls |-> 1, needsRetry |-> "yes"]
            ELSE [ret |-> ReturnNil, d |-> StoreToken(dd, metadata, now),
                  certCalls |-> 1, statusCalls |-> 1, needsRetry |-> "no"]

Outcome(kind, err) == [kind |-> kind, err |-> err]

\* No normalizer run takes place during a token read.
EmptyDoc == [k |-> "null", s |-> <<>>, n |-> 0, a |-> <<>>, o |-> <<>>]
NormIdle ==
    /\ doc = EmptyDoc
    /\ orig = EmptyDoc
    /\ first = EmptyDoc
    /\ npc = "idle"
    /\ trail = <<>>

\* No policy operation takes place during a token read or a normalizer run.
NoData == [id |-> <<>>, policy |-> EmptyDoc, deploy_request_id |-> <<>>,
           deploy_to |-> "production"]
PolicyIdle ==
    /\ op = "none"
    /\ ppc = "idle"
    /\ pd = NoData
    /\ before = NoData
    /\ pending = EmptyDoc
    /\ policyID = 0
    /\ log = <<>>
    /\ result = "none"

Init ==
    /\ pc = "start"
    /\ cfg \in Configs
    /\ clock = 0
    /\ calls = [cert |-> 0, status |-> 0]
    /\ attempts = 0
    /\ resp = NoResp
    /\ statusresp = NoStatus
    /\ needsRetry = "none"
    /\ allRetry = TRUE
    /\ ret = Ret("none", NoError)
    /\ d = [value |-> <<>>, valueWrites |-> 0, idSet |-> FALSE, id |-> 0]
    /\ outcome = Outcome("none", NoError)
    /\ NormIdle
    /\ PolicyIdle

\* DataSourceDNSTXTTokenRead up to the call of RetryContext: the arguments
\* are parsed, and an unusable one ends the read before any remote call.
Start ==
    /\ pc = "start"
    /\ IF cfg.bad = "none"
       THEN /\ pc' = "query"
            /\ outcome' = outcome
       ELSE /\ pc' = "done"
            /\ outcome' = Outcome("input", cfg.bad)
    /\ UNCHANGED <<cfg, clock, calls, attempts, resp, statusresp, needsRetry,
                   allRetry, ret, d, normVars, policyVars>>

\* How the retry driver goes on after one run of the callback.
AfterAttempt(r) ==
    IF r.kind = "nil" THEN [pc |-> "done", outcome |-> Outcome("success", NoError)]
    ELSE IF r.kind = "nonretryable" THEN [pc |-> "done", outcome |-> Outcome("fatal", r.err)]
    ELSE [pc |-> "wait", outcome |-> Outcome("none", NoError)]

\* One run of the callback under RetryContext.  A response the run does not
\* get to read is not recorded: the status when the certificate read
\* failed, the domain metadata when the run ended before reading them.
Attempt ==
    /\ pc = "query"
    /\ \E r \in Resps, s \in StatusResps :
          LET out == RetryFunc(r, s, cfg.retry, d, clock)
              next == AfterAttempt(out.ret)
          IN /\ (out.statusCalls = 0 => s = statusresp)
             /\ (out.needsRetry = "none" => r.metadata = <<>>)
             /\ resp' = r
             /\ statusresp' = s
             /\ calls' = [cert |-> calls.cert + out.certCalls,
                          status |-> calls.status + out.statusCalls]
             /\ attempts' = attempts + 1
             /\ needsRetry' = out.needsRetry
             /\ allRetry' = (allRetry /\ out.needsRetry = "yes")
             /\ ret' = out.ret
             /\ d' = out.d
             /\ pc' = next.pc
             /\ outcome' = next.outcome
    /\ UNCHANGED <<cfg, clock, normVars, policyVars>>

\* The driver waits between two runs; the deadline has not passed.  The
\* responses of the finished run were locals of the callback and are gone.
Backoff ==
    /\ pc = "wait"
    /\ \E w \in 1..MaxWait :
          /\ clock + w < cfg.timeout
          /\ clock' = clock + w
    /\ pc' = "query"
    /\ resp' = NoResp
    /\ statusresp' = NoStatus
    /\ needsRetry' = "none"
    /\ UNCHANGED <<cfg, calls, attempts, allRetry, ret, d, outcome, normVars, policyVars>>

\* The deadline passes while the driver waits: the read ends with a timeout
\* whose cause is the last retryable error.
TimeoutResult(lastErr) == Outcome("timeout", lastErr)

Deadline ==
    /\ pc = "wait"
    /\ \E w \in 1..MaxWait :
          /\ clock + w >= cfg.timeout
          /\ clock' = clock + w
    /\ pc' = "done"
    /\ outcome' = TimeoutResult(ret.err)
    /\ UNCHANGED <<cfg, calls, attempts, resp, statusresp, needsRetry, allRetry,
                   ret, d, normVars, policyVars>>

Next == Start \/ Attempt \/ Backoff \/ Deadline

Spec == Init /\ [][Next]_vars

\* The retry driver keeps running until the callback succeeds, fails or the
\* deadline passes.
FairSpec == Spec /\ WF_vars(Next)

(***************************************************************************)
(* The policy normalizer.  A JSON value as Go holds it after                *)
(* json.Unmarshal: k is its dynamic type ("str", "num", "null", "obj" for   *)
(* map[string]interface{}, "arr" for []interface{}, "maps" for              *)
(* []map[string]interface{}); "panic" stands for a run-time panic.          *)
(***************************************************************************)
Value(k, s, n, a, o) == [k |-> k, s |-> s, n |-> n, a |-> a, o |-> o]
Str(s) == Value("str", s, 0, <<>>, <<>>)
Num(n) == Value("num", <<>>, n, <<>>, <<>>)
Arr(a) == Value("arr", <<>>, 0, a, <<>>)
Maps(a) == Value("maps", <<>>, 0, a, <<>>)
Obj(o) == Value("obj", <<>>, 0, <<>>, o)
Panic == Value("panic", <<>>, 0, <<>>, <<>>)

NoFields == [j \in {} |-> Panic]
Has(m, key) == key \in DOMAIN m
Put(m, key, v) == [j \in DOMAIN m \cup {key} |-> IF j = key THEN v ELSE m[j]]
Delete(m, key) == [j \in DOMAIN m \ {key} |-> m[j]]
DeleteAll(m, keys) == [j \in DOMAIN m \ keys |-> m[j]]

kId == <<"id">>
kAtId == <<"@id">>
kAtType == <<"@type">>
kPolicyType == <<"policy", "_", "type">>
kState == <<"state">>
kHistory == <<"history">>
kCreatedAt == <<"created", "_", "at">>
kUpdatedAt == <<"updated", "_", "at">>
kOrdinal == <<"ordinal">>
kRules == <<"rules">>
kMatches == <<"matches">>
kFeatures == <<"features">>
kName == <<"name">>
kType == <<"type">>
kValue == <<"value">>

\* The keys cleanPolicy deletes from the policy object.
PolicyMetadataKeys ==
    {kId, kAtId, kAtType, kPolicyType, kState, kHistory, kCreatedAt, kUpdatedAt}

\* A slip: the rule's ordinal is left in place.
RuleMetadataKeys_KeepOrdinal == {kId, kAtId, kAtType, kCreatedAt, kUpdatedAt}

\* The keys cleanPolicy deletes from each rule object.
RuleMetadataKeys == {kId, kAtId, kAtType, kOrdinal, kCreatedAt, kUpdatedAt}

\* A slip: strings.Replace(k, "-", "_", 1), only the first hyphen is replaced.
ReplaceHyphens_FirstOnly(k) ==
    [i \in DOMAIN k |->
        IF k[i] = "-" /\ (\A j \in 1..(i - 1) : k[j] # "-") THEN "_" ELSE k[i]]

\* strings.Replace(k, "-", "_", -1)
ReplaceHyphens(k) == [i \in DOMAIN k |-> IF k[i] = "-" THEN "_" ELSE k[i]]

\* A slip: the elements are joined last to first.
RECURSIVE Join_Reversed(_, _)
Join_Reversed(strs, sep) ==
    IF strs = <<>> THEN <<>>
    ELSE IF Len(strs) = 1 THEN strs[1]
    ELSE Join_Reversed(Tail(strs), sep) \o sep \o strs[1]

\* strings.Join
RECURSIVE Join(_, _)
Join(strs, sep) ==
    IF strs = <<>> THEN <<>>
    ELSE IF Len(strs) = 1 THEN strs[1]
    ELSE strs[1] \o sep \o Join(Tail(strs), sep)

\* helper.ConvertSliceToStrings: succeeds when every element is a string.
ConvertSliceToStrings(a) ==
    [ok |-> \A i \in DOMAIN a : a[i].k = "str",
     strings |-> [i \in DOMAIN a |-> a[i].s]]

\* The value standardizeMatchFeature stores for v.
StandardizeValue(v) ==
    IF v.k = "arr"
    THEN LET c == ConvertSliceToStrings(v.a)
         IN IF c.ok THEN Str(Join(c.strings, <<" ">>)) ELSE v
    ELSE v

\* The loop of standardizeMatchFeature, the keys being produced in the
\* given order.  A key is produced with the value the map holds for it then.
RECURSIVE StandardizeVisit(_, _)
StandardizeVisit(m, order) ==
    IF order = <<>> THEN m
    ELSE LET key == Head(order)
         IN IF ~Has(m, key) THEN StandardizeVisit(m, Tail(order))
            ELSE StandardizeVisit(
                     Put(Delete(m, key), ReplaceHyphens(key), StandardizeValue(m[key])),
                     Tail(order))

RECURSIVE Orders(_)
Orders(S) ==
    IF S = {} THEN {<<>>}
    ELSE UNION {{<<x>> \o t : t \in Orders(S \ {x})} : x \in S}

\* Go leaves the order of a range over a map unspecified, and an entry
\* created during the range may be produced or skipped: every key the map
\* held is produced once, in any order, and the entries created meanwhile
\* are either all skipped or produced afterwards.
Revisits(m) ==
    LET created == {ReplaceHyphens(key) : key \in DOMAIN m}
    IN {<<>>, CHOOSE o \in Orders(created) : TRUE}

\* The results standardizeMatchFeature may leave in the map.
standardizeMatchFeature(m) ==
    {StandardizeVisit(m, o \o r) : o \in Orders(DOMAIN m), r \in Revisits(m)}

\* The loop over features in cleanMatches.
RECURSIVE CleanFeatures(_)
CleanFeatures(features) ==
    IF features = <<>> THEN {Maps(<<>>)}
    ELSE LET feature == Head(features)
             cleaned == IF feature.k # "obj" THEN {Panic}
                        ELSE {Obj(f) : f \in standardizeMatchFeature(Delete(feature.o, kOrdinal))}
         IN {IF c.k = "panic" \/ rest.k = "panic" THEN Panic ELSE Maps(<<c>> \o rest.a) :
                c \in cleaned, rest \in CleanFeatures(Tail(features))}

RECURSIVE cleanMatches(_)
RECURSIVE CleanMatch(_)

\* The features of a match, replaced by the cleaned features when they are
\* a []interface{}.
CleanMatchFeatures(m) ==
    IF Has(m, kFeatures) /\ m[kFeatures].k = "arr"
    THEN {IF fs.k = "panic" THEN Panic ELSE Obj(Put(m, kFeatures, fs)) :
             fs \in CleanFeatures(m[kFeatures].a)}
    ELSE {Obj(m)}

\* The child matches of a match, cleaned recursively when they are a
\* []interface{}.
CleanChildMatches(m) ==
    IF Has(m, kMatches) /\ m[kMatches].k = "arr"
    THEN {IF ms.k = "panic" THEN Panic ELSE Obj(Put(m, kMatches, ms)) :
             ms \in cleanMatches(m[kMatches].a)}
    ELSE {Obj(m)}

\* One turn of the loop of cleanMatches.
CleanMatch(match) ==
    IF match.k # "obj" THEN {Panic}
    ELSE UNION {
           UNION {IF withChildren.k = "panic" THEN {Panic}
                  ELSE CleanMatchFeatures(withChildren.o) :
                     withChildren \in CleanChildMatches(standardized)} :
              standardized \in standardizeMatchFeature(Delete(match.o, kOrdinal))}

cleanMatches(matches) ==
    IF matches = <<>> THEN {Maps(<<>>)}
    ELSE {IF c.k = "panic" \/ rest.k = "panic" THEN Panic ELSE Maps(<<c>> \o rest.a) :
             c \in CleanMatch(Head(matches)), rest \in cleanMatches(Tail(matches))}

\* One turn of the loop over rules in cleanPolicy.
CleanRule(rule) ==
    IF rule.k # "obj" THEN {Panic}
    ELSE LET ruleMap == DeleteAll(rule.o, RuleMetadataKeys)
         IN IF Has(ruleMap, kMatches) /\ ruleMap[kMatches].k = "arr"
            THEN {IF ms.k = "panic" THEN Panic ELSE Obj(Put(ruleMap, kMatches, ms)) :
                     ms \in cleanMatches(ruleMap[kMatches].a)}
            ELSE {Obj(ruleMap)}

RECURSIVE CleanRules(_)
CleanRules(rules) ==
    IF rules = <<>> THEN {Maps(<<>>)}
    ELSE {IF c.k = "panic" \/ rest.k = "panic" THEN Panic ELSE Maps(<<c>> \o rest.a) :
             c \in CleanRule(Head(rules)), rest \in CleanRules(Tail(rules))}

\* policyMap["rules"].([]interface{}): the one-result form of the type
\* assertion panics when the key is missing or holds any other type.
RulesAssertionHolds(policyMap) ==
    Has(policyMap, kRules) /\ policyMap[kRules].k = "arr"

\* The results cleanPolicy may leave in policyMap.
cleanPolicy(policy) ==
    LET policyMap == DeleteAll(policy.o, PolicyMetadataKeys)
    IN IF ~RulesAssertionHolds(policyMap) THEN {Panic}
       ELSE {IF rs.k = "panic" THEN Panic ELSE Obj(Put(policyMap, kRules, rs)) :
                rs \in CleanRules(policyMap[kRules].a)}

\* json.Marshal followed by json.Unmarshal into a map[string]interface{}:
\* every slice comes back as a []interface{}.
RECURSIVE Reparse(_)
Reparse(v) ==
    IF v.k \in {"arr", "maps"} THEN Arr([i \in DOMAIN v.a |-> Reparse(v.a[i])])
    ELSE IF v.k = "obj" THEN Obj([j \in DOMAIN v.o |-> Reparse(v.o[j])])
    ELSE v

(***************************************************************************)
(* The policy trees the normalizer is run on.                              *)
(***************************************************************************)
Names == <<"n1", "n2", "n3", "n4", "n5">>
kHyphen == <<"a", "-", "b">>
kUnderscore == <<"a", "_", "b">>
kTwoHyphens == <<"x", "-", "y", "-", "z">>

Fields(keys, v) == [j \in keys |-> v]
Merge(f, g) == [j \in DOMAIN f \cup DOMAIN g |-> IF j \in DOMAIN g THEN g[j] ELSE f[j]]
One(key, v) == Fields({key}, v)

FeatureSamples ==
    << Obj(Merge(One(kType, Str(<<"feature.comment">>)), One(kValue, Str(<<"v">>)))),
       Obj(Merge(One(kOrdinal, Num(1)),
                 Merge(One(kType, Str(<<"feature.list">>)),
                       One(kValue, Arr(<<Str(<<"a">>), Str(<<"b">>), Str(<<"c">>)>>))))),
       Obj(Merge(One(kOrdinal, Num(2)), One(kHyphen, Arr(<<Str(<<"a">>)>>)))),
       Obj(Merge(One(kHyphen, Str(<<"v1">>)), One(kUnderscore, Str(<<"v2">>)))),
       Obj(One(kValue, Arr(<<Obj(One(kName, Str(<<"nested">>))), Str(<<"a">>)>>))),
       Obj(One(kValue, Arr(<<>>))),
       Obj(Merge(One(<<"a", "-", "b", "_", "c">>, Str(<<"1">>)),
                 One(<<"a", "_", "b", "-", "c">>, Str(<<"2">>)))),
       Obj(Merge(One(kTwoHyphens, Arr(<<Str(<<"p">>), Str(<<"q", "r">>)>>)),
                 One(kType, Str(<<"feature.list">>)))) >>

\* len consecutive samples, starting with the i-th.
FeatureWindow(i, len) ==
    [j \in 1..len |-> FeatureSamples[((i + j - 2) % Len(FeatureSamples)) + 1]]

\* The features key of a match: absent, or a list of 0..MaxFeatures features.
FeatureOptions ==
    {NoFields, One(kFeatures, Arr(<<>>))}
    \cup {One(kFeatures, Arr(FeatureWindow(i, len))) :
             i \in 1..Len(FeatureSamples), len \in 1..MaxFeatures}

\* The other keys of the i-th match of a list.
MatchBase(i, profile) ==
    IF profile = 1 THEN One(kType, Str(<<Names[i]>>))
    ELSE IF profile = 2 THEN Merge(One(kType, Str(<<Names[i]>>)), One(kOrdinal, Num(i)))
    ELSE Merge(One(kHyphen, Str(<<Names[i]>>)), One(kOrdinal, Num(i)))

MatchProfiles == 1..3

\* A list of width matches nested depth levels deep: the first match of
\* each list carries the child list, the innermost first match carries the
\* features and leaf, and the other matches carry neither.
RECURSIVE MatchList(_, _, _, _, _)
MatchList(depth, width, profile, leaf, features) ==
    [i \in 1..width |->
        Obj(Merge(MatchBase(i, profile),
                  IF i # 1 THEN NoFields
                  ELSE IF depth > 1
                  THEN One(kMatches, Arr(MatchList(depth - 1, width, profile, leaf, features)))
                  ELSE Merge(features, leaf)))]

LeafOptions == {NoFields, One(kMatches, Arr(<<>>))}

\* The matches key of a rule: absent (depth -1), an empty list (depth 0) or
\* a list nested depth levels deep.
RuleMatches(depth, width, profile, leaf, features) ==
    IF depth = -1 THEN NoFields
    ELSE IF depth = 0 THEN One(kMatches, Arr(<<>>))
    ELSE One(kMatches, Arr(MatchList(depth, width, profile, leaf, features)))

\* The fields the remote service assigns to a policy and to a rule.
PolicyServerFields ==
    { <<"id">>, <<"@id">>, <<"@type">>, <<"policy", "_", "type">>, <<"state">>,
      <<"history">>, <<"created", "_", "at">>, <<"updated", "_", "at">> }
RuleServerFields ==
    { <<"id">>, <<"@id">>, <<"@type">>, <<"ordinal">>, <<"created", "_", "at">>,
      <<"updated", "_", "at">> }

\* The metadata an object carries: none, that of its own level, or every
\* server-assigned field of any level.
MetadataProfiles == 1..3

Metadata(profile, own) ==
    IF profile = 1 THEN NoFields
    ELSE IF profile = 2 THEN Fields(own, Str(<<"server">>))
    ELSE Fields(PolicyServerFields \cup RuleServerFields, Str(<<"server">>))

\* A list of n rules, the first of which carries the matches.
RuleList(n, meta, matches) ==
    [i \in 1..n |->
        Obj(Merge(Merge(One(kName, Str(<<Names[i]>>)), Metadata(meta, RuleServerFields)),
                  IF i = 1 THEN matches ELSE NoFields))]

\* The rules key of a policy: absent (n = -1) or a list of n rules.
PolicyRules(n, meta, matches) ==
    IF n = -1 THEN NoFields ELSE One(kRules, Arr(RuleList(n, meta, matches)))

PolicyDoc(n, meta, matches) ==
    Obj(Merge(Merge(One(kName, Str(<<"policy">>)), Metadata(meta, PolicyServerFields)),
              PolicyRules(n, meta, matches)))

PolicyDocs ==
    {PolicyDoc(n, meta, RuleMatches(depth, width, profile, leaf, features)) :
        n \in (-1)..MaxRules, meta \in MetadataProfiles, depth \in (-1)..MaxDepth,
        width \in 1..MaxWidth, profile \in MatchProfiles, leaf \in LeafOptions,
        features \in FeatureOptions}

\* No token read takes place during a normalizer run.
PollerIdle ==
    /\ pc = "idle"
    /\ cfg = [bad |-> "none", timeout |-> 0, retry |-> FALSE]
    /\ clock = 0
    /\ calls = [cert |-> 0, status |-> 0]
    /\ attempts = 0
    /\ resp = NoResp
    /\ statusresp = NoStatus
    /\ needsRetry = "none"
    /\ allRetry = TRUE
    /\ ret = Ret("none", NoError)
    /\ d = [value |-> <<>>, valueWrites |-> 0, idSet |-> FALSE, id |-> 0]
    /\ outcome = Outcome("none", NoError)

InitNorm ==
    /\ PollerIdle
    /\ PolicyIdle
    /\ doc \in PolicyDocs
    /\ orig = doc
    /\ first = EmptyDoc
    /\ npc = "parsed"
    /\ trail = <<>>

Cleans(t) == Cardinality({i \in DOMAIN t : t[i] = "clean"})

\* cleanPolicy is called on the tree held in memory.
CleanPolicy ==
    /\ npc \in {"parsed", "cleaned"}
    /\ Cleans(trail) < MaxPasses
    /\ \E out \in cleanPolicy(doc) :
          /\ doc' = out
          /\ npc' = IF out.k = "panic" THEN "panicked" ELSE "cleaned"
          /\ first' = IF Cleans(trail) = 0 THEN out ELSE first
    /\ trail' = Append(trail, "clean")
    /\ UNCHANGED <<orig, pollerVars, policyVars>>

\* The cleaned tree is marshalled to JSON (ResourcePolicyRead) and the JSON
\* is parsed again (cleanPolicyForTerrafomState).
MarshalUnmarshal ==
    /\ npc = "cleaned"
    /\ Cleans(trail) < MaxPasses
    /\ doc' = Reparse(doc)
    /\ npc' = "parsed"
    /\ trail' = Append(trail, "reparse")
    /\ UNCHANGED <<orig, first, pollerVars, policyVars>>

NextNorm == CleanPolicy \/ MarshalUnmarshal

SpecNorm == InitNorm /\ [][NextNorm]_vars

(***************************************************************************)
(* The policy resource.  A policy string is modelled by the JSON tree it   *)
(* denotes, a string that is not JSON by the value Malformed.              *)
(***************************************************************************)
Digits == <<"0", "1", "2", "3", "4", "5", "6", "7", "8", "9">>
IsDigit(c) == \E i \in DOMAIN Digits : Digits[i] = c
DigitValue(c) == (CHOOSE i \in DOMAIN Digits : Digits[i] = c) - 1

RECURSIVE ParseDigits(_)
ParseDigits(s) ==
    IF s = <<>> THEN 0
    ELSE ParseDigits(SubSeq(s, 1, Len(s) - 1)) * 10 + DigitValue(s[Len(s)])

\* strconv.Atoi: an optional sign followed by one or more decimal digits.
Atoi(s) ==
    LET signed == s # <<>> /\ s[1] \in {"+", "-"}
        body == IF signed THEN Tail(s) ELSE s
        ok == body # <<>> /\ \A i \in DOMAIN body : IsDigit(body[i])
    IN [ok |-> ok,
        n |-> IF ~ok THEN 0
              ELSE IF signed /\ s[1] = "-" THEN 0 - ParseDigits(body)
              ELSE ParseDigits(body)]

kPlatform == <<"platform">>
kDescription == <<"description">>
Locked == Str(<<"locked">>)
Malformed == Value("malformed", <<>>, 0, <<>>, <<>>)

\* time.Now().Format(time.RFC3339)
Timestamp == "2022-01-01T00:00:00Z"

\* A slip: the placeholder is not locked.
emptyPolicy_Unlocked(timestamp, platform) ==
    Obj(Merge(One(kName, Str(<<"Terraform Placeholder - ", timestamp>>)),
              Merge(One(kPlatform, Str(platform)), One(kRules, Arr(<<>>)))))

\* fmt.Sprintf(emptyPolicyFormat, timestamp, platform, timestamp)
emptyPolicy(timestamp, platform) ==
    LET feature == Obj(Merge(One(kType, Str(<<"feature.comment">>)),
                             One(kValue, Str(<<"Empty policy created on ", timestamp>>))))
        match == Obj(Merge(One(kFeatures, Arr(<<feature>>)),
                           Merge(One(kOrdinal, Num(1)), One(kType, Str(<<"match.always">>)))))
        rule == Obj(Merge(One(kAtType, Str(<<"rule-create">>)),
                          Merge(One(kDescription,
                                    Str(<<"Placeholder rule created by the Edgecast Terraform Provider">>)),
                                Merge(One(kMatches, Arr(<<match>>)),
                                      One(kName, Str(<<"Placeholder Rule">>))))))
    IN Obj(Merge(One(kAtType, Str(<<"policy-create">>)),
                 Merge(One(kName, Str(<<"Terraform Placeholder - ", timestamp>>)),
                       Merge(One(kPlatform, Str(platform)),
                             Merge(One(kRules, Arr(<<rule>>)), One(kState, Locked))))))

\* json.Unmarshal into an empty map, its error dropped: a string that is
\* not a JSON object leaves the map empty.
Unmarshal(policy) == IF policy.k = "obj" THEN policy.o ELSE NoFields

\* A slip: the state of the user's document is kept.
LockState_Keep(policyMap) ==
    IF Has(policyMap, kState) THEN policyMap ELSE Put(policyMap, kState, Locked)

\* policyMap["state"] = "locked"
LockState(policyMap) == Put(policyMap, kState, Locked)

\* json.Marshal
Marshal(policyMap) == Reparse(Obj(policyMap))

Platforms == { <<"http_large">>, <<"adn">> }
Environments == {"production", "staging"}
Operations == {"create", "update", "read", "delete"}

\* The policy attribute: the user's document for Create and Update, the
\* stored one for Read and Delete.
UserPolicy(platform, state) ==
    Obj(Merge(Merge(One(kName, Str(<<"policy">>)), One(kPlatform, Str(platform))),
              Merge(One(kRules, Arr(<<>>)), state)))

UserPolicies ==
    {UserPolicy(<<"http_large">>, st) :
        st \in {NoFields, One(kState, Locked), One(kState, Str(<<"unlocked">>))}}

StoredIds == { <<"4", "2">>, <<"x", "1">> }
AddedIds == { <<"7">>, <<"0", "7">>, <<"1", "2">>, <<"x", "1">> }
RemoteIds == { <<"7">>, <<"4", "2">> }
DeployIds == { <<"d", "1">> }

\* What the remote service answers.
AddReplies == {[err |-> TRUE, ID |-> <<>>]} \cup [err : {FALSE}, ID : AddedIds]
DeployReplies == {[err |-> TRUE, ID |-> <<>>]} \cup [err : {FALSE}, ID : DeployIds]

RemotePolicy(id, platform, n) ==
    Obj(Merge(PolicyDoc(n, 2, NoFields).o,
              Merge(One(kId, Str(id)), One(kPlatform, Str(platform)))))

GetReplies ==
    {[err |-> TRUE, policy |-> EmptyDoc]}
    \cup {[err |-> FALSE, policy |-> RemotePolicy(id, platform, n)] :
             id \in RemoteIds, platform \in Platforms, n \in 0..1}

\* One remote call as the service saw it: the request and its answer.
Call(kind, policy, id, env, ok, ID, body) ==
    [kind |-> kind, policy |-> policy, PolicyID |-> id, Environment |-> env,
     ok |-> ok, ID |-> ID, body |-> body]

\* d.SetId and d.Set
SetIdTo(dd, id) == [dd EXCEPT !.id = id]
Set(dd, key, v) == [dd EXCEPT ![key] = v]

\* getPolicy: the stored id is parsed, then the policy is fetched.
getPolicy(dd, reply) ==
    LET parsed == Atoi(dd.id)
    IN IF ~parsed.ok
       THEN [err |-> TRUE, called |-> FALSE, policyID |-> 0, policy |-> EmptyDoc]
       ELSE [err |-> reply.err, called |-> TRUE, policyID |-> parsed.n,
             policy |-> reply.policy]

\* A slip: the id and the policy are stored for the placeholder as well.
StoreAdded_Always(isEmptyPolicy, dd, ID, policy) ==
    Set(SetIdTo(dd, ID), "policy", policy)

\* addPolicy after a successful AddPolicy call.
StoreAdded(isEmptyPolicy, dd, ID, policy) ==
    IF ~isEmptyPolicy THEN Set(SetIdTo(dd, ID), "policy", policy) ELSE dd

getDeployRequestData(dd, id) ==
    [Message |-> "Auto-submitted policy", PolicyID |-> id, Environment |-> dd.deploy_to]

\* addPolicy after a successful DeployPolicy call.
FinishDeploy(isEmptyPolicy, dd, deployID) ==
    IF isEmptyPolicy THEN SetIdTo(dd, <<>>) ELSE Set(dd, "deploy_request_id", deployID)

\* The state the host runtime hands to an operation: Create runs on a
\* resource without id, the others on a stored one.  Create drops the error
\* of json.Unmarshal, so a policy string that is not JSON is among its
\* inputs.
InitPolicy ==
    /\ PollerIdle
    /\ NormIdle
    /\ op \in Operations
    /\ ppc = "start"
    /\ pd \in [id : StoredIds \cup {<<>>},
               policy : UserPolicies \cup {Malformed},
               deploy_request_id : {<<>>, <<"d", "0">>},
               deploy_to : Environments]
    /\ (op = "create") = (pd.id = <<>>)
    /\ op = "create" => pd.deploy_request_id = <<>>
    /\ pd.policy = Malformed => op \in {"create", "update"}
    /\ before = pd
    /\ pending = EmptyDoc
    /\ policyID = 0
    /\ log = <<>>
    /\ result = "none"

\* ResourcePolicyCreate (and ResourcePolicyUpdate, which calls it) up to
\* the call of addPolicy.
ResourcePolicyCreate ==
    /\ op \in {"create", "update"}
    /\ ppc = "start"
    /\ pending' = Marshal(LockState(Unmarshal(pd.policy)))
    /\ ppc' = "add"
    /\ UNCHANGED <<op, pd, before, policyID, log, result, pollerVars, normVars>>

\* ResourcePolicyDelete up to the call of addPolicy.
ResourcePolicyDelete ==
    /\ op = "delete"
    /\ ppc = "start"
    /\ \E reply \in GetReplies :
          LET got == getPolicy(pd, reply)
          IN /\ (~got.called => reply.err)
             /\ log' = IF got.called
                       THEN Append(log, Call("get", EmptyDoc, got.policyID, "", ~got.err,
                                             <<>>, got.policy))
                       ELSE log
             /\ IF got.err
                THEN /\ ppc' = "returned"
                     /\ result' = "error"
                     /\ pending' = pending
                ELSE /\ ppc' = "add"
                     /\ result' = result
                     /\ pending' = emptyPolicy(Timestamp, got.policy.o[kPlatform].s)
    /\ UNCHANGED <<op, pd, before, policyID, pollerVars, normVars>>

\* addPolicy up to the deploy request: the AddPolicy call, the parsing of
\* the returned id, and the storing of id and policy.
addPolicy ==
    /\ ppc = "add"
    /\ \E reply \in AddReplies :
          LET parsed == Atoi(reply.ID)
          IN /\ log' = Append(log, Call("add", pending, 0, "", ~reply.err, reply.ID, EmptyDoc))
             /\ IF reply.err \/ ~parsed.ok
                THEN /\ ppc' = "returned"
                     /\ result' = "error"
                     /\ UNCHANGED <<pd, policyID>>
                ELSE /\ ppc' = "deploy"
                     /\ result' = result
                     /\ pd' = StoreAdded(op = "delete", pd, reply.ID, pending)
                     /\ policyID' = parsed.n
    /\ UNCHANGED <<op, before, pending, pollerVars, normVars>>

\* The rest of addPolicy: the DeployPolicy call and what follows it.
DeployPolicy ==
    /\ ppc = "deploy"
    /\ \E reply \in DeployReplies :
          LET request == getDeployRequestData(pd, policyID)
          IN /\ log' = Append(log, Call("deploy", EmptyDoc, request.PolicyID,
                                        request.Environment, ~reply.err, reply.ID, EmptyDoc))
             /\ IF reply.err
                THEN /\ ppc' = "returned"
                     /\ result' = "error"
                     /\ pd' = pd
                ELSE /\ pd' = FinishDeploy(op = "delete", pd, reply.ID)
                     /\ ppc' = IF op = "delete" THEN "returned" ELSE "read"
                     /\ result' = IF op = "delete" THEN "ok" ELSE result
    /\ UNCHANGED <<op, before, pending, policyID, pollerVars, normVars>>

\* ResourcePolicyRead, called by the host runtime or at the end of
\* ResourcePolicyCreate.  The remote service answers with a policy that has
\* an id, a platform and a rules list.
ResourcePolicyRead ==
    /\ \/ op = "read" /\ ppc = "start"
       \/ ppc = "read"
    /\ \E reply \in GetReplies :
          LET got == getPolicy(pd, reply)
          IN /\ (~got.called => reply.err)
             /\ log' = IF got.called
                       THEN Append(log, Call("get", EmptyDoc, got.policyID, "", ~got.err,
                                             <<>>, got.policy))
                       ELSE log
             /\ IF got.err
                THEN /\ pd' = SetIdTo(pd, <<>>)
                     /\ result' = "error"
                ELSE \E out \in cleanPolicy(got.policy) :
                        /\ pd' = IF out.k = "panic"
                                 THEN SetIdTo(pd, got.policy.o[kId].s)
                                 ELSE Set(SetIdTo(pd, got.policy.o[kId].s), "policy",
                                          Reparse(out))
                        /\ result' = IF out.k = "panic" THEN "panic" ELSE "ok"
    /\ ppc' = "returned"
    /\ UNCHANGED <<op, before, pending, policyID, pollerVars, normVars>>

NextPolicy ==
    \/ ResourcePolicyCreate
    \/ ResourcePolicyDelete
    \/ addPolicy
    \/ DeployPolicy
    \/ ResourcePolicyRead

SpecPolicy == InitPolicy /\ [][NextPolicy]_vars

(***************************************************************************)
(* Properties of the token data source.                                    *)
(***************************************************************************)
Done == pc = "done"
NoErrorReturned == Done /\ outcome.kind = "success"
OneCheck == attempts = 1 /\ calls = [cert |-> 1, status |-> 1]
ValueUnset == d.valueWrites = 0 /\ d.value = <<>>

\* The last check asked for a retry while wait_until_available is false.
DisabledRetryCase == needsRetry = "yes" /\ ~cfg.retry

\* C1: whenever a check yields needsRetry = true and wait_until_available is
\* false, the read has returned without error, with the value left unset,
\* after exactly one check (one certificate read and one status read), and
\* no step is taken afterwards.
C1_DisabledRetryEarlyExit ==
    /\ [](DisabledRetryCase => NoErrorReturned /\ ValueUnset /\ OneCheck)
    /\ [][~DisabledRetryCase]_vars

C1_Witness == DisabledRetryCase /\ Done /\ attempts = 1

\* The last check met a fatal condition: a failed read, a validation type
\* other than DV, or a workflow error message.
FatalCondition ==
    /\ attempts >= 1
    /\ \/ resp.err
       \/ statusresp.err
       \/ resp.ValidationType # "DV"
       \/ Len(resp.WorkflowErrorMessage) > 0

FatalMessages ==
    { "error while retrieving certificate details",
      "certificate must have validation type DV",
      "error in workflow" }

\* C2: on any attempt that meets a fatal condition the read ends on that
\* attempt with a fatal error that is not a timeout, whatever
\* wait_until_available is, and no step (so no query) is taken afterwards.
C2_FatalNeverRetried ==
    /\ [](FatalCondition =>
            /\ Done
            /\ outcome.kind = "fatal"
            /\ outcome.err \in FatalMessages
            /\ ret.kind = "nonretryable")
    /\ [][~FatalCondition]_vars

C2_Witness ==
    /\ FatalCondition
    /\ Done
    /\ cfg.retry
    /\ attempts = 1
    /\ ~resp.err
    /\ ~statusresp.err
    /\ resp.ValidationType = "OV"

\* Case-insensitive equality stated character by character.
SameLetter(a, b) ==
    \/ a = b
    \/ \E i \in DOMAIN UpperChars :
          \/ a = UpperChars[i] /\ b = LowerChars[i]
          \/ a = LowerChars[i] /\ b = UpperChars[i]

EqualFold(a, b) ==
    /\ Len(a) = Len(b)
    /\ \A i \in 1..Len(a) : SameLetter(a[i], b[i])

\* The first domain of the last response carries a non-empty token.
FirstTokenPresent ==
    /\ Len(resp.metadata) >= 1
    /\ ~resp.metadata[1].isNil
    /\ resp.metadata[1].Token # <<>>

\* The first check found a DV certificate without workflow error, a status
\* that is not "processing" (in any letter case) and a first domain with a
\* non-empty token.
TokenAvailableOnFirstCheck ==
    /\ attempts = 1
    /\ ~resp.err
    /\ ~statusresp.err
    /\ resp.ValidationType = "DV"
    /\ resp.WorkflowErrorMessage = <<>>
    /\ ~EqualFold(statusresp.Status, processing)
    /\ FirstTokenPresent

\* C3: when the first check finds the token available, the read returns
\* without error with value = the first domain's token, after exactly one
\* check and without retrying.
C3_PollerSuccess ==
    TokenAvailableOnFirstCheck =>
        /\ NoErrorReturned
        /\ d.value = resp.metadata[1].Token
        /\ d.valueWrites = 1
        /\ OneCheck
        /\ clock = 0

C3_Witness ==
    /\ TokenAvailableOnFirstCheck
    /\ Done
    /\ Len(resp.metadata) = 2
    /\ resp.metadata[1].Token = <<"XYZ">>
    /\ resp.metadata[2].Token = <<"ABC">>
    /\ statusresp.Status = <<"c", "o", "m", "p", "l", "e", "t", "e">>

\* Every check so far asked for a retry, and retrying is enabled.
PerpetualRetryCase == cfg.bad = "none" /\ cfg.retry /\ allRetry

\* C4: when every check yields needsRetry = true and wait_until_available
\* is true, the read eventually stops, and it stops only once the deadline
\* has passed, with a timeout error (neither a fatal error nor success)
\* whose cause is "token not available", after at least one check.
C4_PollerTimeout ==
    /\ <>Done
    /\ [](PerpetualRetryCase /\ Done =>
            /\ outcome = Outcome("timeout", "token not available")
            /\ outcome.kind \notin {"fatal", "success"}
            /\ clock >= cfg.timeout
            /\ attempts >= 1
            /\ ValueUnset)

C4_Witness == PerpetualRetryCase /\ Done /\ attempts >= 2 /\ outcome.kind = "timeout"

\* C5: every read that returns without error has set the identifier.
C5_IdAlwaysSet == NoErrorReturned => d.idSet

\* The four retry conditions, stated on the responses of the last check.
RetryConditions ==
    \/ EqualFold(statusresp.Status, processing)
    \/ resp.metadata = <<>>
    \/ (resp.metadata # <<>> /\ resp.metadata[1].isNil)
    \/ (resp.metadata # <<>> /\ ~resp.metadata[1].isNil /\ resp.metadata[1].Token = <<>>)

\* C6: CheckForRetry is defined for every input and is true exactly when
\* the status is "processing" in any letter case, or the domain list is
\* empty, or the first domain has no token object, or its token is empty;
\* the domains after the first do not matter.
C6_CheckForRetry ==
    needsRetry # "none" =>
        /\ needsRetry \in {"yes", "no"}
        /\ (needsRetry = "yes") = RetryConditions
        /\ \A m \in MetadataLists :
              (m # <<>> /\ resp.metadata # <<>> /\ m[1] = resp.metadata[1])
                  => CheckForRetry(m, statusresp) = (needsRetry = "yes")

C6_Witness ==
    /\ needsRetry = "yes"
    /\ statusresp.Status = <<"P", "R", "O", "C", "E", "S", "S", "I", "N", "G">>
    /\ FirstTokenPresent

(***************************************************************************)
(* Properties of the policy normalizer.                                    *)
(***************************************************************************)
IsList(v) == v.k \in {"arr", "maps"}
HasList(m, key) == Has(m, key) /\ IsList(m[key])

\* cleanPolicy has returned (it did not panic).
Normalized == npc = "cleaned"

\* The first normalization of the tree has returned.
NormalizedOnce == npc = "cleaned" /\ trail = <<"clean">>

\* The keys the claim names for the root and the rule level.
C7_Keys ==
    { <<"id">>, <<"@id">>, <<"@type">>, <<"policy", "_", "type">>, <<"state">>,
      <<"history">>, <<"created", "_", "at">>, <<"updated", "_", "at">> }

\* The keys cleanPolicy removes from a rule.
C7_RuleKeys ==
    { <<"id">>, <<"@id">>, <<"@type">>, <<"ordinal">>, <<"created", "_", "at">>,
      <<"updated", "_", "at">> }

Lacks(v, keys) == v.k = "obj" /\ DOMAIN v.o \cap keys = {}

\* No match of the list, at any depth, and none of their features has the
\* key ordinal.
RECURSIVE NoOrdinals(_)
NoOrdinals(matches) ==
    \A i \in DOMAIN matches.a :
        LET m == matches.a[i]
        IN /\ Lacks(m, {<<"ordinal">>})
           /\ HasList(m.o, kMatches) => NoOrdinals(m.o[kMatches])
           /\ HasList(m.o, kFeatures) =>
                 \A j \in DOMAIN m.o[kFeatures].a :
                     Lacks(m.o[kFeatures].a[j], {<<"ordinal">>})

RulesOf(v) == IF HasList(v.o, kRules) THEN v.o[kRules].a ELSE <<>>

MetadataRemoved(v, rootKeys, ruleKeys) ==
    /\ Lacks(v, rootKeys)
    /\ \A i \in DOMAIN RulesOf(v) :
          /\ Lacks(RulesOf(v)[i], ruleKeys)
          /\ HasList(RulesOf(v)[i].o, kMatches) => NoOrdinals(RulesOf(v)[i].o[kMatches])

\* C7 as stated: after normalization the root and every rule have none of
\* id, @id, @type, policy_type, state, history, created_at, updated_at, and
\* no match or feature has ordinal.
C7_MetadataRemoved == Normalized => MetadataRemoved(doc, C7_Keys, C7_Keys)

\* C7 as amended: after a normalization that returns, the root has none of
\* id, @id, @type, policy_type, state, history, created_at, updated_at,
\* every rule has none of id, @id, @type, ordinal, created_at, updated_at,
\* and no match (at any depth) and no feature has ordinal.
C7_MetadataRemovedAmended == Normalized => MetadataRemoved(doc, C7_Keys, C7_RuleKeys)

\* A tree that carried every metadata key on the root and on two rules,
\* with ordinals on nested matches and on a feature, has been normalized.
C7_Witness ==
    /\ NormalizedOnce
    /\ C7_Keys \subseteq DOMAIN orig.o
    /\ Len(RulesOf(orig)) = 2
    /\ C7_RuleKeys \subseteq DOMAIN RulesOf(orig)[1].o
    /\ HasList(RulesOf(orig)[1].o, kMatches)
    /\ LET outer == RulesOf(orig)[1].o[kMatches].a
       IN /\ Len(outer) = 2
          /\ Has(outer[1].o, kOrdinal)
          /\ HasList(outer[1].o, kMatches)
          /\ Len(outer[1].o[kMatches].a) = 2
          /\ LET inner == outer[1].o[kMatches].a[1]
             IN /\ Has(inner.o, kOrdinal)
                /\ HasList(inner.o, kFeatures)
                /\ Len(inner.o[kFeatures].a) = 2
                /\ Has(inner.o[kFeatures].a[1].o, kOrdinal)
    /\ LET outer == RulesOf(doc)[1].o[kMatches].a
       IN /\ Len(outer) = 2
          /\ HasList(outer[1].o, kMatches)
          /\ Len(outer[1].o[kMatches].a) = 2
          /\ HasList(outer[1].o[kMatches].a[1].o, kFeatures)
          /\ Len(outer[1].o[kMatches].a[1].o[kFeatures].a) = 2

\* Some match of the list, at any depth, has no features or no matches key.
RECURSIVE MatchLacksContainer(_)
MatchLacksContainer(matches) ==
    \E i \in DOMAIN matches.a :
        LET m == matches.a[i]
        IN \/ ~Has(m.o, kFeatures)
           \/ ~Has(m.o, kMatches)
           \/ (HasList(m.o, kMatches) /\ MatchLacksContainer(m.o[kMatches]))

\* The document has no rules key, or a rule without matches key, or a
\* match without features or matches key.
MissingContainer(v) ==
    \/ ~Has(v.o, kRules)
    \/ \E i \in DOMAIN RulesOf(v) :
          \/ ~Has(RulesOf(v)[i].o, kMatches)
          \/ (HasList(RulesOf(v)[i].o, kMatches)
                /\ MatchLacksContainer(RulesOf(v)[i].o[kMatches]))

\* C8: normalizing a document with a missing rules, matches or features
\* key never fails: the normalization returns and the tree is normalized.
C8_MissingContainersNoError ==
    (MissingContainer(orig) /\ trail = <<"clean">>) =>
        /\ Normalized
        /\ MetadataRemoved(doc, C7_Keys, C7_RuleKeys)

\* Entry b of the output stems from entry a of the input: it holds a's name
\* (or type) under the standardized key.
SameEntry(a, b) ==
    /\ b.k = "obj"
    /\ \A key \in DOMAIN a.o \cap {kName, kType, kHyphen} :
          Has(b.o, ReplaceHyphens(key)) /\ b.o[ReplaceHyphens(key)] = a.o[key]

\* A feature of the output has the keys of the input feature, standardized.
SameFeature(a, b) ==
    /\ b.k = "obj"
    /\ DOMAIN b.o = {ReplaceHyphens(key) : key \in DOMAIN a.o \ {kOrdinal}}

\* A list under key in the input is a list of the same length in the output.
SameList(a, b, key) ==
    HasList(a.o, key) =>
        /\ HasList(b.o, key)
        /\ Len(b.o[key].a) = Len(a.o[key].a)

RECURSIVE SameMatches(_, _)
SameMatches(a, b) ==
    \A i \in DOMAIN a.a :
        LET x == a.a[i]
            y == b.a[i]
        IN /\ SameEntry(x, y)
           /\ SameList(x, y, kMatches)
           /\ SameList(x, y, kFeatures)
           /\ HasList(x.o, kMatches) => SameMatches(x.o[kMatches], y.o[kMatches])
           /\ HasList(x.o, kFeatures) =>
                 \A j \in DOMAIN x.o[kFeatures].a :
                     SameFeature(x.o[kFeatures].a[j], y.o[kFeatures].a[j])

SameShape(a, b) ==
    /\ SameList(a, b, kRules)
    /\ \A i \in DOMAIN RulesOf(a) :
          LET x == RulesOf(a)[i]
              y == RulesOf(b)[i]
          IN /\ SameEntry(x, y)
             /\ SameList(x, y, kMatches)
             /\ HasList(x.o, kMatches) => SameMatches(x.o[kMatches], y.o[kMatches])

\* C9: every rules, matches and features list of the input, an empty one
\* included, is a list at the same place of the output, with as many
\* entries in the same order.
C9_ShapePreserved == NormalizedOnce => SameShape(orig, doc)

\* C10: cleanPolicy applied to its own output returns, and returns a tree
\* equal to that output.
C10_Idempotent ==
    trail = <<"clean", "clean">> => (Normalized /\ doc = first)

\* Key k2 is key k with every hyphen replaced by an underscore.
IsUnderscored(k, k2) ==
    /\ Len(k2) = Len(k)
    /\ \A i \in 1..Len(k) : k2[i] = (IF k[i] = "-" THEN "_" ELSE k[i])

NoHyphen(k) == \A i \in 1..Len(k) : k[i] # "-"

\* Value w is value v, possibly reshaped: an array may have become a string
\* or a cleaned list.
Carries(v, w) == w = v \/ (v.k = "arr" /\ w.k \in {"str", "maps"})

\* Object b has the keys of object a (but ordinal) with underscores for
\* hyphens, and each key of b carries the value of a key of a it stems from.
KeysStandardized(a, b) ==
    LET keys == DOMAIN a.o \ {<<"ordinal">>}
    IN /\ b.k = "obj"
       /\ \A k \in keys : \E k2 \in DOMAIN b.o : IsUnderscored(k, k2)
       /\ \A k \in keys : NoHyphen(k) => k \in DOMAIN b.o
       /\ \A k2 \in DOMAIN b.o :
             /\ NoHyphen(k2)
             /\ \E k \in keys : IsUnderscored(k, k2) /\ Carries(a.o[k], b.o[k2])

RECURSIVE MatchesStandardized(_, _)
MatchesStandardized(a, b) ==
    \A i \in DOMAIN a.a :
        LET x == a.a[i]
            y == b.a[i]
        IN /\ KeysStandardized(x, y)
           /\ (HasList(x.o, kMatches) /\ HasList(y.o, kMatches))
                 => MatchesStandardized(x.o[kMatches], y.o[kMatches])
           /\ (HasList(x.o, kFeatures) /\ HasList(y.o, kFeatures))
                 => \A j \in DOMAIN x.o[kFeatures].a :
                       KeysStandardized(x.o[kFeatures].a[j], y.o[kFeatures].a[j])

\* C11: after a normalization that returns, the keys of every match and of
\* every feature are the input keys with every hyphen replaced by an
\* underscore (keys without hyphen are kept), none of them has a hyphen, and
\* each key carries the (possibly reshaped) value of the input key it stems
\* from.
C11_KeysStandardized ==
    NormalizedOnce =>
        \A i \in DOMAIN RulesOf(orig) :
            HasList(RulesOf(orig)[i].o, kMatches)
                => MatchesStandardized(RulesOf(orig)[i].o[kMatches],
                                       RulesOf(doc)[i].o[kMatches])

\* A match with the key a-b whose first feature has the key x-y-z has been
\* normalized: the match holds a_b and the feature x_y_z.
C11_Witness ==
    /\ NormalizedOnce
    /\ Len(RulesOf(orig)) >= 1
    /\ HasList(RulesOf(orig)[1].o, kMatches)
    /\ Len(RulesOf(orig)[1].o[kMatches].a) >= 1
    /\ LET x == RulesOf(orig)[1].o[kMatches].a[1]
           y == RulesOf(doc)[1].o[kMatches].a[1]
       IN /\ Has(x.o, kHyphen)
          /\ Has(y.o, kUnderscore)
          /\ HasList(x.o, kFeatures)
          /\ Len(x.o[kFeatures].a) >= 1
          /\ Has(x.o[kFeatures].a[1].o, kTwoHyphens)
          /\ Has(y.o[kFeatures].a[1].o, <<"x", "_", "y", "_", "z">>)

\* Every element of the array is a JSON string.
AllStrings(a) == \A i \in DOMAIN a : a[i].k = "str"

\* String r is the elements, first to last, with one space between two
\* neighbours and none elsewhere.
RECURSIVE IsJoined(_, _)
IsJoined(r, elems) ==
    IF elems = <<>> THEN r = <<>>
    ELSE LET e == elems[1].s
         IN IF Len(elems) = 1 THEN r = e
            ELSE /\ Len(r) > Len(e)
                 /\ SubSeq(r, 1, Len(e)) = e
                 /\ r[Len(e) + 1] = " "
                 /\ IsJoined(SubSeq(r, Len(e) + 2, Len(r)), Tail(elems))

\* The array values of object a are joined in object b when all their
\* elements are strings; the others are kept (a container of a match, which
\* is cleaned afterwards, stays a list of the same length).
ArraysJoined(a, b, containers) ==
    \A k \in DOMAIN a.o \ {<<"ordinal">>} :
        LET v == a.o[k]
            w == b.o[ReplaceHyphens(k)]
        IN v.k = "arr" =>
              IF AllStrings(v.a) THEN w.k = "str" /\ IsJoined(w.s, v.a)
              ELSE IF k \in containers THEN IsList(w) /\ Len(w.a) = Len(v.a)
              ELSE w = v

RECURSIVE MatchArraysJoined(_, _)
MatchArraysJoined(a, b) ==
    \A i \in DOMAIN a.a :
        LET x == a.a[i]
            y == b.a[i]
        IN /\ ArraysJoined(x, y, {kMatches, kFeatures})
           /\ (HasList(x.o, kMatches) /\ HasList(y.o, kMatches))
                 => MatchArraysJoined(x.o[kMatches], y.o[kMatches])
           /\ (HasList(x.o, kFeatures) /\ HasList(y.o, kFeatures))
                 => \A j \in DOMAIN x.o[kFeatures].a :
                       ArraysJoined(x.o[kFeatures].a[j], y.o[kFeatures].a[j], {})

\* C12: normalizing a tree with a rules list returns, whatever arrays its
\* matches and features hold; an array value whose elements are all strings
\* has become one string, the elements in their order with single spaces
\* between them, and an array with another element is the array it was.
C12_ArraysJoined ==
    /\ (trail = <<"clean">> /\ HasList(orig.o, kRules)) => Normalized
    /\ NormalizedOnce =>
          \A i \in DOMAIN RulesOf(orig) :
              HasList(RulesOf(orig)[i].o, kMatches)
                  => MatchArraysJoined(RulesOf(orig)[i].o[kMatches],
                                       RulesOf(doc)[i].o[kMatches])

\* The feature {"ordinal": 1, "type": "feature.list", "value": ["a","b","c"]}
\* has been normalized to {"type": "feature.list", "value": "a b c"}.
C12_Witness ==
    /\ NormalizedOnce
    /\ Len(RulesOf(orig)) >= 1
    /\ HasList(RulesOf(orig)[1].o, kMatches)
    /\ Len(RulesOf(orig)[1].o[kMatches].a) >= 1
    /\ LET x == RulesOf(orig)[1].o[kMatches].a[1]
           y == RulesOf(doc)[1].o[kMatches].a[1]
       IN /\ HasList(x.o, kFeatures)
          /\ Len(x.o[kFeatures].a) >= 1
          /\ x.o[kFeatures].a[1] = FeatureSamples[2]
          /\ y.o[kFeatures].a[1] =
                Obj(Merge(One(<<"type">>, Str(<<"feature.list">>)),
                          One(<<"value">>, Str(<<"a", " ", "b", " ", "c">>))))

(***************************************************************************)
(* Properties of the policy resource.                                      *)
(***************************************************************************)
\* The number a decimal id stands for.
NumberOf(id) ==
    CASE id = <<"7">> -> 7
      [] id = <<"0", "7">> -> 7
      [] id = <<"1", "2">> -> 12
      [] id = <<"4", "2">> -> 42
      [] OTHER -> -1

Returned == ppc = "returned"
Kinds(k) == {i \in DOMAIN log : log[i].kind = k}

\* The policy is a locked placeholder for the platform.
IsPlaceholder(policy, platform) ==
    /\ policy.k = "obj"
    /\ Has(policy.o, <<"platform">>)
    /\ policy.o[<<"platform">>] = Str(platform)
    /\ Has(policy.o, <<"state">>)
    /\ policy.o[<<"state">>] = Str(<<"locked">>)
    /\ Has(policy.o, <<"name">>)
    /\ policy.o[<<"name">>].s[1] = "Terraform Placeholder - "

\* C13: a delete calls no endpoint but get, add and deploy; what it adds is
\* a placeholder policy with state "locked" and the platform of the policy
\* it has just fetched; what it deploys is the policy whose id the add call
\* returned; and a delete that succeeds has done both.
C13_DeleteAsPlaceholder ==
    op = "delete" =>
        /\ \A i \in DOMAIN log : log[i].kind \in {"get", "add", "deploy"}
        /\ \A i \in Kinds("add") :
              /\ i = 2
              /\ log[1].kind = "get"
              /\ log[1].ok
              /\ IsPlaceholder(log[i].policy, log[1].body.o[<<"platform">>].s)
        /\ \A i \in Kinds("deploy") :
              /\ i = 3
              /\ log[2].kind = "add"
              /\ log[2].ok
              /\ log[i].PolicyID = NumberOf(log[2].ID)
              /\ log[i].PolicyID >= 0
              /\ log[i].Environment = pd.deploy_to
        /\ (Returned /\ result = "ok") => (Len(log) = 3 /\ log[3].kind = "deploy" /\ log[3].ok)

\* A delete of a policy of platform adn has succeeded.
C13_Witness ==
    /\ op = "delete"
    /\ Returned
    /\ result = "ok"
    /\ Len(log) = 3
    /\ log[1].body.o[<<"platform">>] = Str(<<"adn">>)
    /\ log[2].policy.o[<<"platform">>] = Str(<<"adn">>)
    /\ log[2].ID = <<"1", "2">>
    /\ log[3].PolicyID = 12

CreateOrUpdate == op \in {"create", "update"}

\* The document has state = "locked".
IsLocked(policy) ==
    /\ policy.k = "obj"
    /\ Has(policy.o, <<"state">>)
    /\ policy.o[<<"state">>] = Str(<<"locked">>)

\* The calls of a create or update are an add, then a deploy, then a get,
\* each made only when the one before it succeeded.
CreateCallOrder ==
    /\ Len(log) <= 3
    /\ \A i \in DOMAIN log :
          /\ log[i].kind = <<"add", "deploy", "get">>[i]
          /\ i > 1 => log[i - 1].ok

\* C14: in a create or update every document submitted has state "locked";
\* the calls are add, deploy, re-read in this order; once add and deploy
\* have succeeded the stored id is the id the add call returned and the next
\* step fetches the policy of that id; a create that succeeds has made all
\* three calls.
C14_CreateLocksAndRereads ==
    /\ [](CreateOrUpdate =>
            /\ CreateCallOrder
            /\ \A i \in Kinds("add") : IsLocked(log[i].policy)
            /\ ppc = "read" =>
                  /\ Len(log) = 2
                  /\ log[2].ok
                  /\ pd.id = log[1].ID
                  /\ log[2].PolicyID = NumberOf(log[1].ID)
            /\ \A i \in Kinds("get") : log[i].PolicyID = NumberOf(log[1].ID)
            /\ (Returned /\ result = "ok") => (Len(log) = 3 /\ log[3].ok))
    /\ [][ppc = "read" => (Len(log') = 3 /\ log'[3].kind = "get")]_vars

\* A create of a document with state "unlocked" has succeeded.
C14_Witness ==
    /\ op = "create"
    /\ Returned
    /\ result = "ok"
    /\ before.policy.k = "obj"
    /\ Has(before.policy.o, <<"state">>)
    /\ before.policy.o[<<"state">>] = Str(<<"unlocked">>)
    /\ Len(log) = 3
    /\ log[1].policy.o[<<"state">>] = Str(<<"locked">>)
    /\ log[1].ID = <<"0", "7">>
    /\ log[3].PolicyID = 7

\* The operation has met an input error: a policy string that is not JSON
\* (Create, Update) or a stored id that is not a number (Read, Delete).
InputError ==
    \/ CreateOrUpdate /\ before.policy.k # "obj"
    \/ op \in {"read", "delete"} /\ before.id = <<"x", "1">>

\* C15: an operation that meets an input error returns an error at once,
\* having issued no remote call and with the stored id, policy and
\* deploy_request_id as they were before it.
C15_InputErrorsAbort ==
    (InputError /\ ppc # "start") =>
        /\ Returned
        /\ result = "error"
        /\ log = <<>>
        /\ pd = before

\* Some call of the kind was made and succeeded / failed.
Succeeded(k) == \E i \in Kinds(k) : log[i].ok
Failed(k) == \E i \in Kinds(k) : ~log[i].ok

\* C16: a delete leaves the stored policy (and deploy_request_id) alone; it
\* clears the stored id exactly when the add call and the deploy call both
\* succeeded, and otherwise keeps it; when the fetch fails it makes no add
\* or deploy call and returns an error; when the add or the deploy call
\* fails it returns an error.
C16_DeleteClearsIdOnSuccess ==
    op = "delete" =>
        /\ pd.policy = before.policy
        /\ pd.deploy_request_id = before.deploy_request_id
        /\ (pd.id = <<>>) = (Succeeded("add") /\ Succeeded("deploy"))
        /\ pd.id # <<>> => pd.id = before.id
        /\ (ppc # "start" /\ ~Succeeded("get")) =>
              /\ Kinds("add") = {}
              /\ Kinds("deploy") = {}
              /\ Returned
              /\ result = "error"
        /\ (Failed("add") \/ Failed("deploy")) => (Returned /\ result = "error")
        /\ Returned => ((result = "ok") = (Succeeded("add") /\ Succeeded("deploy")))

\* A delete whose placeholder was created but could not be deployed has
\* returned.
C16_Witness ==
    /\ op = "delete"
    /\ Returned
    /\ Len(log) = 3
    /\ log[2].ok
    /\ ~log[3].ok
    /\ result = "error"
    /\ pd = before

(***************************************************************************)
(* More properties of the token data source.                               *)
(***************************************************************************)
\* The last check is one on which the token may be stored: both reads
\* succeeded, the type is DV, there is no workflow error, the status is not
\* "processing" in any letter case, and the first domain has a token.
TokenAvailable ==
    /\ attempts >= 1
    /\ ~resp.err
    /\ ~statusresp.err
    /\ resp.ValidationType = "DV"
    /\ resp.WorkflowErrorMessage = <<>>
    /\ statusresp.Status # processing
    /\ ~EqualFold(statusresp.Status, processing)
    /\ FirstTokenPresent

\* C17: value is written at most once, and only by a check on which the
\* token is available; it then holds the first domain's token, which is not
\* empty, and the read ends with that check, without error; a read that
\* ends in a fatal, timeout or input error has not written value.
C17_TokenValueInvariant ==
    /\ [](/\ d.valueWrites <= 1
          /\ d.valueWrites = 0 => d.value = <<>>
          /\ d.valueWrites = 1 =>
                /\ TokenAvailable
                /\ d.value = resp.metadata[1].Token
                /\ d.value # <<>>
                /\ NoErrorReturned
          /\ outcome.kind \in {"fatal", "timeout", "input"} => d.valueWrites = 0)
    /\ [][d'.value # d.value => (d.valueWrites = 0 /\ d'.valueWrites = 1 /\ pc = "query")]_vars

\* The token was not available on the first check and has been stored on a
\* later one.
C17_Witness ==
    /\ d.valueWrites = 1
    /\ attempts = 2
    /\ clock > 0
    /\ Done
    /\ d.value = <<"ABC">>
    /\ Len(resp.metadata) = 2
    /\ resp.metadata[2].Token = <<"XYZ">>

(***************************************************************************)
(* More properties of the policy resource and of the normalizer.           *)
(***************************************************************************)
\* C18: a create or update that returns an error has left the stored id
\* and the stored policy as they were; the id differs from the one before
\* only once the whole operation has succeeded; deploy_request_id is
\* written only after a deploy call succeeded.
C18_FailedCreateUntouched ==
    CreateOrUpdate =>
        /\ (Returned /\ result = "error") =>
              (pd.id = before.id /\ pd.policy = before.policy)
        /\ pd.id # before.id => (Returned /\ result = "ok")
        /\ pd.deploy_request_id # before.deploy_request_id => Succeeded("deploy")

\* C19: the tree a normalization returns is the only one it can return for
\* its input, whatever the order in which the keys of a match or feature
\* are visited and whether or not a key stored during the visit is visited
\* again.
C19_Deterministic ==
    NormalizedOnce => \A out \in cleanPolicy(orig) : out = doc

====
